---- MODULE Spec2Model ----
(***************************************************************************)
(* A model of src/src/components/PurrintApp.tsx: the PurrintApp component  *)
(* (file selection, mode switches, the preview effect, onPrintClick) and   *)
(* the text renderer (renderTextToCanvas, wrapMonospaceText, the threshold *)
(* step).  Strings are sequences of one-character strings.  Lengths in     *)
(* pixels that the code computes in floating point (16 * 1.4, 16 * 1.15)   *)
(* are kept in tenths of a pixel; where the rounding of a floating-point   *)
(* product changes the integer the canvas keeps (lineHeightProductFloor),  *)
(* the rounding of the double is modelled as well.                         *)
(***************************************************************************)
EXTENDS Integers, Sequences, FiniteSets, TLC

VARIABLES
    \* ---- wrapMonospaceText, one loop iteration per step ----
    value,            \* the argument value
    maxCharsPerLine,  \* the argument maxCharsPerLine
    i,                \* the loop index, 1-based: the next character to read
    w,                \* the locals: currentLine, column, lastBreakColumn,
                      \* lastBreakIndex, lines
    lastStep,         \* history: what the last iteration did
    wpc,              \* "loop" | "done" | "off"
    \* ---- renderTextToCanvas, one stage per step ----
    r,                \* the render in progress (a record, see RenderInit)
    \* ---- the PurrintApp component ----
    variant,          \* which onPrintClick / renderTextToCanvas is deployed
    mounted,          \* the component is mounted (its refs are attached)
    mode,             \* useState<Mode>
    textInput,        \* useState("")
    photoImageData,   \* useState<ImageData>(): NoImage or a bitmap
    canvas,           \* what the preview canvas holds
    files,            \* the renderImage promise of every selected file
    jobs,             \* every onPrintClick invocation
    alerts            \* the alert() calls not made by a print request

vars == <<value, maxCharsPerLine, i, w, lastStep, wpc, r, variant, mounted,
          mode, textInput, photoImageData, canvas, files, jobs, alerts>>

wrapVars == <<value, maxCharsPerLine, i, w, lastStep, wpc>>
appVars == <<variant, mounted, mode, textInput, photoImageData, canvas,
             files, jobs, alerts>>

-----------------------------------------------------------------------------
(* Program constants *)

PREVIEW_WIDTH == 384
TEXT_PADDING == 16
TEXT_FONT_SIZE == 16
\* TEXT_FONT_SIZE * TEXT_LINE_HEIGHT = 16 * 1.4 = 22.4 px, in tenths of a pixel
TEXT_LINE_HEIGHT_PX10 == 224
MIN_TEXT_HEIGHT == 120
TEXT_THRESHOLD == 200
WIDTH == 384
\* FONT_SIZE * LINE_HEIGHT_RATIO = 16 * 1.15 = 18.4 px, in tenths of a pixel
LINE_HEIGHT_PX10 == 184

-----------------------------------------------------------------------------
(* Bounds *)

MaxLen == 5        \* longest input of wrapMonospaceText
MaxLimit == 3      \* largest maxCharsPerLine
MaxRenderLen == 4  \* longest text handed to renderTextToCanvas
MaxSplitLines == 25 \* most lines canvas-txt's splitText returns
MaxPixels == 1     \* pixels sampled from the rasterized canvas
MaxFiles == 2      \* file selections (change, drop, paste)
MaxJobs == 2       \* onPrintClick invocations

-----------------------------------------------------------------------------
(* Characters and strings *)

LF == "\n"
CR == "\r"
TAB == "\t"
Alphabet == {"a", " ", "-", TAB, LF, CR}

RECURSIVE SeqsUpTo(_, _)
SeqsUpTo(S, n) ==
    IF n = 0 THEN {<<>>}
    ELSE LET shorter == SeqsUpTo(S, n - 1)
         IN  shorter \cup {Append(s, c) : s \in {t \in shorter : Len(t) = n - 1}, c \in S}

Max(a, b) == IF a >= b THEN a ELSE b
Min(a, b) == IF a <= b THEN a ELSE b

IsWhiteSpace(c) == c \in {" ", TAB, LF, CR}

\* String.prototype.trim
RECURSIVE trim(_)
trim(s) ==
    IF s = <<>> THEN <<>>
    ELSE IF IsWhiteSpace(s[1]) THEN trim(Tail(s))
    ELSE IF IsWhiteSpace(s[Len(s)]) THEN trim(SubSeq(s, 1, Len(s) - 1))
    ELSE s

\* s.slice(from) of a JavaScript string, from 0-based
SliceFrom(s, from) == SubSeq(s, from + 1, Len(s))
\* s.slice(0, to)
SliceTo(s, to) == SubSeq(s, 1, to)

-----------------------------------------------------------------------------
(* wrapMonospaceText *)

\* a wrapMonospaceText that does not break after a hyphen
IsBreakCharNoHyphen(c) == c = " " \/ c = TAB
\* char === " " || char === "\t" || char === "-"
IsBreakChar(c) == c = " " \/ c = TAB \/ c = "-"

\* value.replace(/\r\n/g, "\n")
RECURSIVE normalized(_)
normalized(s) ==
    IF s = <<>> THEN <<>>
    ELSE IF Len(s) >= 2 /\ s[1] = CR /\ s[2] = LF
         THEN <<LF>> \o normalized(SliceFrom(s, 2))
         ELSE <<s[1]>> \o normalized(SliceFrom(s, 1))

\* Math.max(1, maxCharsPerLine)
limit(m) == Max(1, m)

WrapInit ==
    [currentLine |-> <<>>, column |-> 0, lastBreakColumn |-> -1,
     lastBreakIndex |-> -1, lines |-> <<>>]

pushCurrentLine(s) ==
    [currentLine |-> <<>>, column |-> 0, lastBreakColumn |-> -1,
     lastBreakIndex |-> -1, lines |-> Append(s.lines, s.currentLine)]

\* the for loop over the carried-over rest: j + 1 of its last break character
RECURSIVE RescanBreak(_, _)
RescanBreak(line, j) ==
    IF j = 0 THEN -1
    ELSE IF IsBreakChar(line[j]) THEN j
         ELSE RescanBreak(line, j - 1)

\* currentLine += char; column += 1; and the break bookkeeping
AppendChar(s, char) ==
    LET line == Append(s.currentLine, char)
        col == s.column + 1
    IN  [s EXCEPT !.currentLine = line,
                  !.column = col,
                  !.lastBreakColumn = IF IsBreakChar(char) THEN col ELSE @,
                  !.lastBreakIndex = IF IsBreakChar(char) THEN Len(line) ELSE @]

\* a wrapMonospaceText that breaks one character after the limit
BreakConditionLate(s, lim) == s.column > lim
\* column >= limit
BreakCondition(s, lim) == s.column >= lim

\* lastBreakColumn > 0 && lastBreakColumn < column
SoftBreakCondition(s) == s.lastBreakColumn > 0 /\ s.lastBreakColumn < s.column

\* a wrapMonospaceText whose soft break drops the break character
SoftBreakDropsBreakChar(s) ==
    LET breakIndex == s.lastBreakIndex
        linePart == SliceTo(s.currentLine, breakIndex - 1)
        rest == SliceFrom(s.currentLine, breakIndex)
        rescanned == RescanBreak(rest, Len(rest))
    IN  [currentLine |-> rest, column |-> Len(rest),
         lastBreakColumn |-> rescanned, lastBreakIndex |-> rescanned,
         lines |-> Append(s.lines, linePart)]
\* lines.push(currentLine.slice(0, breakIndex)); the rest is carried over
SoftBreak(s) ==
    LET breakIndex == s.lastBreakIndex
        linePart == SliceTo(s.currentLine, breakIndex)
        rest == SliceFrom(s.currentLine, breakIndex)
        rescanned == RescanBreak(rest, Len(rest))
    IN  [currentLine |-> rest, column |-> Len(rest),
         lastBreakColumn |-> rescanned, lastBreakIndex |-> rescanned,
         lines |-> Append(s.lines, linePart)]

HardBreak(s) ==
    [currentLine |-> <<>>, column |-> 0, lastBreakColumn |-> -1,
     lastBreakIndex |-> -1, lines |-> Append(s.lines, s.currentLine)]

\* one iteration of the for loop
WrapChar(s, char, lim) ==
    IF char = LF THEN pushCurrentLine(s)
    ELSE LET a == AppendChar(s, char)
         IN  IF BreakCondition(a, lim)
             THEN IF SoftBreakCondition(a) THEN SoftBreak(a) ELSE HardBreak(a)
             ELSE a

RECURSIVE WrapLoop(_, _, _, _)
WrapLoop(s, text, k, lim) ==
    IF k > Len(text) THEN s
    ELSE WrapLoop(WrapChar(s, text[k], lim), text, k + 1, lim)

\* lines.push(currentLine); return lines
wrapMonospaceText(v, m) ==
    LET s == WrapLoop(WrapInit, normalized(v), 1, limit(m))
    IN  Append(s.lines, s.currentLine)

NoStep == [kind |-> "none", full |-> <<>>, pushed |-> <<>>, rest |-> <<>>]

\* what an iteration did, for the claims about the break rule
StepRecord(s, char, lim) ==
    IF char = LF
    THEN [kind |-> "newline", full |-> s.currentLine,
          pushed |-> s.currentLine, rest |-> <<>>]
    ELSE LET a == AppendChar(s, char)
             n == WrapChar(s, char, lim)
         IN  IF Len(n.lines) > Len(s.lines)
             THEN [kind |-> "limit", full |-> a.currentLine,
                   pushed |-> n.lines[Len(n.lines)], rest |-> n.currentLine]
             ELSE [kind |-> "append", full |-> a.currentLine,
                   pushed |-> <<>>, rest |-> n.currentLine]

WrapStart ==
    /\ value \in SeqsUpTo(Alphabet, MaxLen)
    /\ maxCharsPerLine \in 0..MaxLimit
    /\ i = 1
    /\ w = WrapInit
    /\ lastStep = NoStep
    /\ wpc = "loop"

WrapStep ==
    /\ wpc = "loop"
    /\ i <= Len(normalized(value))
    /\ w' = WrapChar(w, normalized(value)[i], limit(maxCharsPerLine))
    /\ lastStep' = StepRecord(w, normalized(value)[i], limit(maxCharsPerLine))
    /\ i' = i + 1
    /\ UNCHANGED <<value, maxCharsPerLine, wpc, r, appVars>>

WrapReturn ==
    /\ wpc = "loop"
    /\ i > Len(normalized(value))
    /\ w' = [w EXCEPT !.lines = Append(w.lines, w.currentLine)]
    /\ wpc' = "done"
    /\ UNCHANGED <<value, maxCharsPerLine, i, lastStep, r, appVars>>

-----------------------------------------------------------------------------
(* renderTextToCanvas *)

Variants == {"greedy", "canvasTxt"}

\* textarea.scrollHeight, as the browser lays it out
ScrollHeights == {40, 200}
\* context.measureText("M").width in tenths of a pixel (0: not measurable)
CharWidths10 == {0, 90}
\* a channel of a rasterized pixel
Channels == {0, 199, 200, 255}

\* Math.max(textareaElement.scrollHeight, MIN_TEXT_HEIGHT)
contentHeight(scrollHeight) == Max(scrollHeight, MIN_TEXT_HEIGHT)

\* Math.max(1, width - padding * 2)
maxWidth == Max(1, PREVIEW_WIDTH - TEXT_PADDING * 2)

\* context.measureText("M").width || fontSize * 0.6, in tenths of a pixel
charWidth10(measured10) ==
    IF measured10 = 0 THEN TEXT_FONT_SIZE * 6 ELSE measured10

\* Math.max(1, Math.floor(maxWidth / charWidth))
maxCharsPerLineOf(measured10) ==
    Max(1, (maxWidth * 10) \div charWidth10(measured10))

\* a renderTextToCanvas that takes the smaller of the two heights
requiredHeightMin10(height, n) ==
    Min(height * 10, TEXT_PADDING * 2 * 10 + n * TEXT_LINE_HEIGHT_PX10)
\* Math.max(height, padding * 2 + lines.length * lineHeightPx), in tenths
requiredHeight10(height, n) ==
    Max(height * 10, TEXT_PADDING * 2 * 10 + n * TEXT_LINE_HEIGHT_PX10)

\* canvas.height = Math.ceil(requiredHeight)
greedyCanvasHeight(height, n) == (requiredHeight10(height, n) + 9) \div 10

\* the exponent of a double: the largest e with 2^e <= x, for x >= 1
RECURSIVE Log2Floor(_)
Log2Floor(x) == IF x < 2 THEN 0 ELSE 1 + Log2Floor(x \div 2)

\* Math.max(lines.length, 1) * lineHeightPx as the double the code computes,
\* integer part.  FONT_SIZE * LINE_HEIGHT_RATIO is the double next below
\* 18.4, short of it by 4/5 * 2^-49, so the product of n lines is short of
\* n * 18.4 by 4n/5 * 2^-49.  That matters only where n * 18.4 is a whole
\* number: the product is then rounded to a double below it exactly when the
\* shortfall exceeds half the spacing of doubles there (2^(e-52), e the
\* exponent), that is when 64 * n > 5 * 2^e; a tie rounds to the whole
\* number.  The first such line count is 25 (459.99999999999994).
lineHeightProductFloor(n) ==
    LET exact10 == n * LINE_HEIGHT_PX10
        whole == exact10 \div 10
    IN  IF exact10 % 10 = 0 /\ 64 * n > 5 * 2^Log2Floor(whole)
        THEN whole - 1
        ELSE whole

\* canvas.height = Math.max(lines.length, 1) * lineHeightPx: the canvas keeps
\* the integer part (height is an unsigned long)
canvasTxtCanvasHeight(n) == lineHeightProductFloor(Max(n, 1))

\* luminance = data[i]; value = luminance < threshold ? 0 : 255;
\* data[i] = data[i + 1] = data[i + 2] = value
ThresholdPixel(p, threshold) ==
    LET luminance == p[1]
        v == IF luminance < threshold THEN 0 ELSE 255
    IN  <<v, v, v, p[4]>>

\* the for loop over imageData.data
ThresholdData(data, threshold) ==
    [k \in 1..Len(data) |-> ThresholdPixel(data[k], threshold)]

RenderOff ==
    [stage |-> "off", variant |-> "greedy", text |-> <<>>, scrollHeight |-> 0,
     measured10 |-> 0, nlines |-> 0, width |-> 0, height |-> 0,
     raw |-> <<>>, data |-> <<>>]

\* onPrintClick renders a text only when it is not blank
RenderStart ==
    \E v \in Variants,
       t \in {x \in SeqsUpTo({"a", LF}, MaxRenderLen) : trim(x) # <<>>},
       sh \in ScrollHeights, m \in CharWidths10 :
        r = [RenderOff EXCEPT !.stage = "start", !.variant = v, !.text = t,
                              !.scrollHeight = sh, !.measured10 = m]

\* lines 298-310: wrap, then size the canvas
RenderLayoutGreedy ==
    /\ UNCHANGED <<wrapVars, appVars>>
    /\ r.stage = "start" /\ r.variant = "greedy"
    /\ LET n == Len(wrapMonospaceText(r.text, maxCharsPerLineOf(r.measured10)))
       IN  r' = [r EXCEPT !.stage = "sized", !.nlines = n,
                          !.width = PREVIEW_WIDTH,
                          !.height = greedyCanvasHeight(
                                        contentHeight(r.scrollHeight), n)]

\* lines 909-912: splitText (of canvas-txt; a text that is not blank has at
\* least one line), then size the canvas
RenderLayoutCanvasTxt ==
    /\ UNCHANGED <<wrapVars, appVars>>
    /\ r.stage = "start" /\ r.variant = "canvasTxt"
    /\ \E n \in 1..MaxSplitLines :
        r' = [r EXCEPT !.stage = "sized", !.nlines = n, !.width = WIDTH,
                       !.height = canvasTxtCanvasHeight(n)]

\* fillRect, fillText / drawText, getImageData: the pixels the browser drew
RenderDraw ==
    /\ UNCHANGED <<wrapVars, appVars>>
    /\ r.stage = "sized"
    /\ \E px \in [1..MaxPixels -> Channels \X Channels \X Channels \X {255}] :
        r' = [r EXCEPT !.stage = "drawn", !.raw = px, !.data = px]

\* lines 332-341: threshold in place, putImageData, return
RenderThreshold ==
    /\ UNCHANGED <<wrapVars, appVars>>
    /\ r.stage = "drawn" /\ r.variant = "greedy"
    /\ r' = [r EXCEPT !.stage = "returned",
                      !.data = ThresholdData(r.data, TEXT_THRESHOLD)]

\* line 928: return ctx.getImageData(...)
RenderReturn ==
    /\ UNCHANGED <<wrapVars, appVars>>
    /\ r.stage = "drawn" /\ r.variant = "canvasTxt"
    /\ r' = [r EXCEPT !.stage = "returned"]

-----------------------------------------------------------------------------
(* The PurrintApp component.  The file holds three revisions of it: the      *)
(* first (lines 23-423) renders text with wrapMonospaceText after awaiting  *)
(* the font ("greedy"); the second and third (lines 438-664 and 679-929)    *)
(* render with canvas-txt and never suspend before printImage ("canvasTxt").*)

Modes == {"image", "text"}
\* what the user types into the textarea
AppTexts == {<<>>, <<TAB>>, <<"a">>, <<"a", TAB>>}
\* the line counts canvas-txt's splitText returns in the component's runs
AppSplitLines == {1, 2}

NoImage == [kind |-> "none", id |-> 0, text |-> <<>>, h |-> 0]
\* the ImageData that renderImage(file, canvas) resolves with for file f
renderImage(f) == [kind |-> "photo", id |-> f, text |-> <<>>, h |-> 0]
\* the ImageData of a text drawn on a canvas of height h
TextBitmap(t, h) == [kind |-> "text", id |-> 0, text |-> t, h |-> h]

\* value.replace(/\t/g, "    ")
RECURSIVE normalizeTextForPrinting(_)
normalizeTextForPrinting(v) ==
    IF v = <<>> THEN <<>>
    ELSE (IF v[1] = TAB THEN <<" ", " ", " ", " ">> ELSE <<v[1]>>)
         \o normalizeTextForPrinting(Tail(v))

\* useMemo(() => normalizeTextForPrinting(textInput), [textInput])
printableText == normalizeTextForPrinting(textInput)

\* an onPrintClick without the blank-text test
IsBlankNever(t) == FALSE
\* !printableText.trim()  /  !textInput.trim()
IsBlank(t) == trim(t) = <<>>

\* the bitmap renderTextToCanvas (lines 268-342) draws and returns
greedyBitmap(t, height, measured10) ==
    TextBitmap(t, greedyCanvasHeight(height,
                    Len(wrapMonospaceText(t, maxCharsPerLineOf(measured10)))))

\* the bitmap renderTextToCanvas (lines 903-929) draws and returns
canvasTxtBitmap(t, n) == TextBitmap(t, canvasTxtCanvasHeight(n))

NewJob ==
    [mode |-> "image", pc |-> "done", text |-> <<>>, height |-> 0,
     photo |-> NoImage, refs |-> TRUE, imageData |-> NoImage,
     buf |-> NoImage, shown |-> NoImage,
     calls |-> 0, alerts |-> <<>>, renderRejected |-> FALSE,
     printRejected |-> FALSE, settled |-> "pending"]

\* alert(...); return
AlertAndReturn(j, msg) ==
    [j EXCEPT !.alerts = Append(@, msg), !.pc = "done", !.settled = "fulfilled"]

\* await printImage(buf): the call is made and the request waits for it
CallPrintImage(j, buf, shown) ==
    [j EXCEPT !.buf = buf, !.shown = shown, !.calls = @ + 1, !.pc = "print"]

\* an onPrintClick without the try/catch
OnPrintErrorUncaught(j) ==
    [j EXCEPT !.pc = "done", !.settled = "rejected"]
\* catch (error) { console.error(...); alert("Printing failed. ...") }
OnPrintError(j) ==
    [j EXCEPT !.alerts = Append(@, "Printing failed"), !.pc = "done",
              !.settled = "fulfilled"]

\* renderTextToCanvas threw or rejected: control goes to the catch block
OnRenderError(j) == OnPrintError([j EXCEPT !.renderRejected = TRUE])

\* useEffect(..., [mode, photoImageData]) after a render with these values
PreviewEffect(newMode, newPhoto) ==
    IF (newMode # mode \/ newPhoto # photoImageData)
       /\ newMode = "image" /\ newPhoto # NoImage /\ mounted
    THEN newPhoto
    ELSE canvas

AppInit ==
    /\ variant \in Variants
    /\ mounted = TRUE
    /\ mode = "image"
    /\ textInput = <<>>
    /\ photoImageData = NoImage
    /\ canvas = NoImage
    /\ files = <<>>
    /\ jobs = <<>>
    /\ alerts = <<>>

\* onClick={() => setMode(m)}
SetMode(m) ==
    /\ mounted
    /\ mode' = m
    /\ canvas' = PreviewEffect(m, photoImageData)
    /\ UNCHANGED <<wrapVars, r, variant, mounted, textInput, photoImageData, files, jobs, alerts>>

\* onChange={(event) => setTextInput(event.target.value)}
OnTextChange(t) ==
    /\ mounted /\ mode = "text"
    /\ textInput' = t
    /\ UNCHANGED <<wrapVars, r, variant, mounted, mode, photoImageData, canvas, files, jobs, alerts>>

\* handleFile(file), from onImageInputChange, onDrop or onPaste
HandleFile ==
    /\ mounted
    /\ Len(files) < MaxFiles
    /\ files' = Append(files, "pending")
    /\ UNCHANGED <<wrapVars, r, variant, mounted, mode, textInput, photoImageData, canvas, jobs, alerts>>

\* .then((imageData) => { setPhotoImageData(imageData); })
PhotoAfterResolve(f) == IF mounted THEN renderImage(f) ELSE photoImageData

RenderImageResolved(f) ==
    /\ f \in 1..Len(files) /\ files[f] = "pending"
    /\ files' = [files EXCEPT ![f] = "resolved"]
    /\ photoImageData' = PhotoAfterResolve(f)
    /\ canvas' = PreviewEffect(mode, PhotoAfterResolve(f))
    /\ UNCHANGED <<wrapVars, r, variant, mounted, mode, textInput, jobs, alerts>>

\* a handleFile whose catch clears the selected image
PhotoAfterRejectCleared(f) == NoImage
\* .catch((error) => { console.error(...); alert("Rendering failed. ...") })
PhotoAfterReject(f) == photoImageData

RenderImageRejected(f) ==
    /\ f \in 1..Len(files) /\ files[f] = "pending"
    /\ files' = [files EXCEPT ![f] = "rejected"]
    /\ alerts' = Append(alerts, "Rendering failed")
    /\ photoImageData' = PhotoAfterReject(f)
    /\ canvas' = PreviewEffect(mode, PhotoAfterReject(f))
    /\ UNCHANGED <<wrapVars, r, variant, mounted, mode, textInput, jobs>>

\* the cleanup of the effects: the component leaves the page
Unmount ==
    /\ mounted
    /\ mounted' = FALSE
    /\ UNCHANGED <<wrapVars, r, variant, mode, textInput, photoImageData, canvas, files, jobs, alerts>>

\* a renderTextToCanvas call that reads the text of the latest render
JobTextLive(j) == printableText
\* text: printableText, as the closure of the click holds it
JobText(j) == jobs[j].text

\* onPrintClick, lines 110-162
OnPrintClickGreedy ==
    /\ variant = "greedy"
    /\ Len(jobs) < MaxJobs
    /\ \E sh \in ScrollHeights :
        LET j == [NewJob EXCEPT !.mode = mode, !.text = printableText,
                               !.photo = photoImageData, !.refs = mounted]
        IN  jobs' = Append(jobs,
                IF mode = "text"
                THEN IF IsBlank(printableText)
                     THEN AlertAndReturn(j, "Please enter some text first")
                     ELSE IF ~mounted
                     THEN AlertAndReturn(j, "Unable to render text")
                     ELSE [j EXCEPT !.height = contentHeight(sh), !.pc = "font"]
                ELSE IF photoImageData = NoImage
                     THEN AlertAndReturn(j, "Please select an image first")
                     ELSE CallPrintImage(j, photoImageData, canvas))
    /\ UNCHANGED <<wrapVars, r, variant, mounted, mode, textInput, photoImageData, canvas, files, alerts>>

\* document.fonts.load settles (a rejection is ignored, lines 355-358):
\* ensureFontLoaded returns, and renderTextToCanvas resumes in a later turn
FontLoaded(j) ==
    /\ j \in 1..Len(jobs) /\ jobs[j].pc = "font"
    /\ jobs' = [jobs EXCEPT ![j] = [@ EXCEPT !.pc = "ensured"]]
    /\ UNCHANGED <<wrapVars, r, variant, mounted, mode, textInput, photoImageData, canvas, files, alerts>>

\* renderTextToCanvas after await ensureFontLoaded(...), lines 297-341: it
\* draws on the preview canvas and resolves with the ImageData; onPrintClick
\* resumes in a later turn
RenderTextToCanvasResumes(j) ==
    /\ j \in 1..Len(jobs) /\ jobs[j].pc = "ensured"
    /\ \E m \in CharWidths10 :
        LET bmp == greedyBitmap(JobText(j), jobs[j].height, m)
        IN  /\ canvas' = bmp
            /\ jobs' = [jobs EXCEPT ![j] =
                            [@ EXCEPT !.imageData = bmp, !.pc = "rendered"]]
    /\ UNCHANGED <<wrapVars, r, variant, mounted, mode, textInput, photoImageData, files, alerts>>

\* renderTextToCanvas rejects (canvas.getContext("2d") gave no context)
FontLoadedRenderFails(j) ==
    /\ j \in 1..Len(jobs) /\ jobs[j].pc = "ensured"
    /\ jobs' = [jobs EXCEPT ![j] =
                    [@ EXCEPT !.renderRejected = TRUE, !.pc = "rendered"]]
    /\ UNCHANGED <<wrapVars, r, variant, mounted, mode, textInput, photoImageData, canvas, files, alerts>>

\* onPrintClick after await renderTextToCanvas(...): await printImage(imageData)
\* on line 142, or the catch block when the render rejected
OnPrintClickResumes(j) ==
    /\ j \in 1..Len(jobs) /\ jobs[j].pc = "rendered"
    /\ jobs' = [jobs EXCEPT ![j] =
                    IF @.renderRejected
                    THEN OnPrintError(@)
                    ELSE CallPrintImage(@, @.imageData, canvas)]
    /\ UNCHANGED <<wrapVars, r, variant, mounted, mode, textInput, photoImageData, canvas, files, alerts>>

\* onPrintClick, lines 751-782, with renderTextToCanvas, lines 903-929
OnPrintClickCanvasTxt ==
    /\ variant = "canvasTxt"
    /\ Len(jobs) < MaxJobs
    /\ \E n \in AppSplitLines, ok \in BOOLEAN :
        LET j == [NewJob EXCEPT !.mode = mode, !.text = textInput,
                               !.photo = photoImageData, !.refs = mounted]
            bmp == canvasTxtBitmap(textInput, n)
            rendered == mode = "text" /\ ~IsBlank(textInput) /\ mounted /\ ok
        IN  /\ jobs' = Append(jobs,
                    IF mode = "text"
                    THEN IF IsBlank(textInput)
                         THEN AlertAndReturn(j, "Please enter some text first")
                         ELSE IF rendered
                         THEN CallPrintImage(j, bmp, bmp)
                         ELSE OnRenderError(j)
                    ELSE IF photoImageData = NoImage
                         THEN AlertAndReturn(j, "Please select an image first")
                         ELSE CallPrintImage(j, photoImageData, canvas))
            /\ canvas' = IF rendered THEN bmp ELSE canvas
    /\ UNCHANGED <<wrapVars, r, variant, mounted, mode, textInput, photoImageData, files, alerts>>

\* printImage(...) resolves: the request returns
PrintImageResolved(j) ==
    /\ j \in 1..Len(jobs) /\ jobs[j].pc = "print"
    /\ jobs' = [jobs EXCEPT ![j] = [@ EXCEPT !.pc = "done", !.settled = "fulfilled"]]
    /\ UNCHANGED <<wrapVars, r, variant, mounted, mode, textInput, photoImageData, canvas, files, alerts>>

\* printImage(...) rejects: the catch block
PrintImageRejected(j) ==
    /\ j \in 1..Len(jobs) /\ jobs[j].pc = "print"
    /\ jobs' = [jobs EXCEPT ![j] = OnPrintError([@ EXCEPT !.printRejected = TRUE])]
    /\ UNCHANGED <<wrapVars, r, variant, mounted, mode, textInput, photoImageData, canvas, files, alerts>>

-----------------------------------------------------------------------------
(* Specifications *)

WrapOff ==
    /\ value = <<>> /\ maxCharsPerLine = 0 /\ i = 1 /\ w = WrapInit
    /\ lastStep = NoStep /\ wpc = "off"

AppOff ==
    /\ variant = "greedy" /\ mounted = FALSE /\ mode = "image"
    /\ textInput = <<>> /\ photoImageData = NoImage /\ canvas = NoImage
    /\ files = <<>> /\ jobs = <<>> /\ alerts = <<>>

\* the component
Init == WrapOff /\ r = RenderOff /\ AppInit

Next ==
    \/ \E m \in Modes : SetMode(m)
    \/ \E t \in AppTexts : OnTextChange(t)
    \/ HandleFile
    \/ \E f \in 1..MaxFiles : RenderImageResolved(f)
    \/ \E f \in 1..MaxFiles : RenderImageRejected(f)
    \/ Unmount
    \/ OnPrintClickGreedy
    \/ \E j \in 1..MaxJobs : FontLoaded(j)
    \/ \E j \in 1..MaxJobs : RenderTextToCanvasResumes(j)
    \/ \E j \in 1..MaxJobs : FontLoadedRenderFails(j)
    \/ \E j \in 1..MaxJobs : OnPrintClickResumes(j)
    \/ OnPrintClickCanvasTxt
    \/ \E j \in 1..MaxJobs : PrintImageResolved(j)
    \/ \E j \in 1..MaxJobs : PrintImageRejected(j)

Spec == Init /\ [][Next]_vars

\* wrapMonospaceText on every input within the bounds
InitWrap == WrapStart /\ r = RenderOff /\ AppOff

NextWrap == WrapStep \/ WrapReturn

SpecWrap == InitWrap /\ [][NextWrap]_vars

\* renderTextToCanvas on every text within the bounds
InitRender == WrapOff /\ RenderStart /\ AppOff

NextRender ==
    \/ RenderLayoutGreedy
    \/ RenderLayoutCanvasTxt
    \/ RenderDraw
    \/ RenderThreshold
    \/ RenderReturn

SpecRender == InitRender /\ [][NextRender]_vars

-----------------------------------------------------------------------------
(* Claims about the component, checked under Spec *)

JobIds == 1..Len(jobs)
FileIds == 1..Len(files)

CountOf(seq, x) == Cardinality({k \in 1..Len(seq) : seq[k] = x})

\* C1: print jobs are serialized: two printImage calls issued by the
\* component are never in flight at the same time.
C1_PrintJobsSerialized ==
    Cardinality({j \in JobIds : jobs[j].pc = "print"}) <= 1

\* C2: whenever printImage is invoked in image mode, the preview canvas holds
\* exactly the buffer passed to printImage (the current photoImageData).
C2_PreviewIsWhatIsPrinted ==
    \A j \in JobIds :
        (jobs[j].mode = "image" /\ jobs[j].calls > 0 /\ jobs[j].refs)
            => (jobs[j].shown = jobs[j].buf /\ jobs[j].buf = jobs[j].photo)

\* C3: a print request whose render or printImage call rejects raises exactly
\* one "Printing failed" alert and settles without propagating the rejection;
\* a request whose render and printImage both succeed raises none.
C3_OneFailureAlert ==
    \A j \in JobIds :
        /\ jobs[j].settled # "rejected"
        /\ jobs[j].pc = "done" =>
            /\ jobs[j].settled = "fulfilled"
            /\ CountOf(jobs[j].alerts, "Printing failed") =
                   (IF jobs[j].renderRejected \/ jobs[j].printRejected
                    THEN 1 ELSE 0)

C3_Witness ==
    \E j, k \in JobIds :
        /\ jobs[j].pc = "done" /\ jobs[j].printRejected
        /\ jobs[k].pc = "done" /\ jobs[k].renderRejected

\* C4: a rejected renderImage leaves photoImageData (and the canvas and the
\* print requests) as they were and only raises the failure alert, and its
\* file is never printed; a text-mode request whose renderTextToCanvas
\* rejects never calls printImage.
C4_RenderErrorsTerminal ==
    /\ [](/\ \A f \in FileIds : files[f] = "rejected" =>
                /\ photoImageData # renderImage(f)
                /\ \A j \in JobIds : jobs[j].buf # renderImage(f)
          /\ CountOf(alerts, "Rendering failed") = CountOf(files, "rejected")
          /\ \A j \in JobIds : jobs[j].renderRejected =>
                (jobs[j].calls = 0 /\ jobs[j].buf = NoImage))
    /\ [][\A f \in FileIds :
            (files[f] = "pending" /\ files'[f] = "rejected") =>
                (photoImageData' = photoImageData /\ canvas' = canvas
                 /\ jobs' = jobs)]_vars

C4_Witness ==
    /\ \E f \in FileIds : files[f] = "rejected"
    /\ photoImageData # NoImage
    /\ \E j \in JobIds : jobs[j].renderRejected

\* the input of a request is valid: in text mode the text is non-blank after
\* trim, the canvas and textarea exist and rendering succeeded; in image
\* mode an image is selected
ValidRequest(job) ==
    IF job.mode = "text"
    THEN trim(job.text) # <<>> /\ job.refs /\ ~job.renderRejected
    ELSE job.photo # NoImage

\* the request still awaits renderTextToCanvas (or has not yet resumed after it)
RenderPending(job) == job.pc \in {"font", "ensured", "rendered"}

\* C5: a request calls printImage exactly once when its input is valid and
\* never otherwise, in which case it only raises an alert.
C5_OnePrintPerValidRequest ==
    \A j \in JobIds :
        /\ jobs[j].calls <= 1
        /\ RenderPending(jobs[j]) => jobs[j].calls = 0
        /\ ~RenderPending(jobs[j]) =>
            /\ jobs[j].calls = (IF ValidRequest(jobs[j]) THEN 1 ELSE 0)
            /\ ~ValidRequest(jobs[j]) =>
                (Len(jobs[j].alerts) = 1 /\ jobs[j].pc = "done"
                 /\ jobs[j].buf = NoImage)

C5_Witness ==
    \E j, k \in JobIds :
        /\ jobs[j].mode = "text" /\ jobs[j].calls = 1
        /\ jobs[k].mode = "text" /\ jobs[k].calls = 0 /\ jobs[k].pc = "done"
        /\ jobs[k].text # <<>>

\* the bitmaps the values read at click time can give
BitmapsOfClick(job) ==
    IF job.mode = "image" THEN {job.photo}
    ELSE IF variant = "greedy"
    THEN {greedyBitmap(job.text, job.height, m) : m \in CharWidths10}
    ELSE {canvasTxtBitmap(job.text, n) : n \in AppSplitLines}

\* C9: the buffer passed to printImage is determined by what onPrintClick
\* read at click time (the text and textarea height, or photoImageData), and
\* no later change of textInput, mode or photoImageData changes what a
\* pending request holds.
C9_BitmapFixedAtClick ==
    /\ [](\A j \in JobIds : jobs[j].calls > 0 =>
                jobs[j].buf \in BitmapsOfClick(jobs[j]))
    /\ [][\A j \in JobIds :
            /\ jobs'[j].text = jobs[j].text
            /\ jobs'[j].height = jobs[j].height
            /\ jobs'[j].photo = jobs[j].photo
            /\ jobs[j].calls > 0 => jobs'[j].buf = jobs[j].buf]_vars

C9_Witness ==
    \E j, k \in JobIds :
        /\ jobs[j].mode = "text" /\ jobs[j].pc = "print"
        /\ jobs[j].buf.text # (IF variant = "greedy" THEN printableText ELSE textInput)
        /\ jobs[k].mode = "image" /\ jobs[k].pc = "print"
        /\ jobs[k].buf # photoImageData

-----------------------------------------------------------------------------
(* Claims about renderTextToCanvas, checked under SpecRender *)

Sized == r.stage \in {"sized", "drawn", "returned"}

\* the height needed to draw every wrapped line, in tenths of a pixel
NeededHeight10 ==
    IF r.variant = "greedy"
    THEN 2 * TEXT_PADDING * 10 + r.nlines * TEXT_LINE_HEIGHT_PX10
    ELSE r.nlines * LINE_HEIGHT_PX10

\* C6 as stated: for each text renderer the height of the bitmap is never
\* below the fixed minimum (MIN_TEXT_HEIGHT = 120) and never less than the
\* height needed to draw every wrapped line.
C6_HeightIsLargerOfMinimumAndLines ==
    Sized => (r.height >= MIN_TEXT_HEIGHT /\ r.height * 10 >= NeededHeight10)

\* C6 as amended: the greedy renderer's height is the larger of
\* max(scrollHeight, 120) and 2 * padding + lines * 22.4, rounded up, so never
\* below 120 and never less than the wrapped lines need; the canvas-txt
\* renderer has no 120 pixel minimum: its height is max(lines, 1) * 18.4
\* computed in floating point with the fraction dropped, at least one line
\* (18 pixels) and at most one pixel short of lines * 18.4 (a whole pixel
\* short at 25 lines, where the product is 459.99999999999994).
C6_HeightPerRenderer ==
    Sized =>
        IF r.variant = "greedy"
        THEN /\ r.height >= MIN_TEXT_HEIGHT
             /\ r.height >= r.scrollHeight
             /\ r.height * 10 >= NeededHeight10
             /\ \/ r.height = MIN_TEXT_HEIGHT
                \/ r.height = r.scrollHeight
                \/ (r.height - 1) * 10 < NeededHeight10
        ELSE /\ r.height >= LINE_HEIGHT_PX10 \div 10
             /\ r.height * 10 <= Max(r.nlines, 1) * LINE_HEIGHT_PX10
             /\ (r.height + 1) * 10 >= Max(r.nlines, 1) * LINE_HEIGHT_PX10

C6_Witness ==
    /\ Sized /\ r.variant = "greedy"
    /\ r.height > MIN_TEXT_HEIGHT /\ r.height > r.scrollHeight
    /\ r.nlines = Len(r.text)

\* C8: the buffer the greedy renderTextToCanvas returns has width 384 and
\* every pixel has R = G = B in {0, 255}, black exactly when the unweighted
\* mean of the drawn pixel's R, G, B is below the threshold (200); alpha is
\* unchanged and thresholding again changes nothing.
C8_BlackOnWhiteByMeanLuminance ==
    (r.stage = "returned" /\ r.variant = "greedy") =>
        /\ r.width = 384
        /\ \A k \in 1..Len(r.data) :
            /\ r.data[k][1] \in {0, 255}
            /\ r.data[k][2] = r.data[k][1] /\ r.data[k][3] = r.data[k][1]
            /\ r.data[k][1] = 0 <=>
                   r.raw[k][1] + r.raw[k][2] + r.raw[k][3] < 3 * 200
            /\ r.data[k][4] = r.raw[k][4]
        /\ ThresholdData(r.data, TEXT_THRESHOLD) = r.data

-----------------------------------------------------------------------------
(* Claims about wrapMonospaceText, checked under SpecWrap *)

BreakChars == {" ", TAB, "-"}

\* the 1-based position of the last space, tab or hyphen of a line, 0 if none
LastBreakPos(line) ==
    LET at == {k \in 1..Len(line) : line[k] \in BreakChars}
    IN  IF at = {} THEN 0 ELSE CHOOSE k \in at : \A m \in at : m <= k

\* C7: an input without a newline whose length is at most the limit
\* (including exactly the limit) wraps to exactly one line, the input.
C7_FitsOnOneLine ==
    (/\ wpc = "done"
     /\ \A k \in 1..Len(value) : value[k] # LF
     /\ Len(value) <= Max(1, maxCharsPerLine))
        => w.lines = <<value>>

\* C10: a line that reaches the column limit is broken right after its last
\* space, tab or hyphen when that character lies before the final column,
\* and is hard-broken at the limit otherwise; so a word is split across two
\* lines only when the line being broken holds no break character.
C10_BreakRule ==
    (wpc = "loop" /\ lastStep.kind \in {"append", "limit"}) =>
        LET line == lastStep.full
            lim == Max(1, maxCharsPerLine)
            p == LastBreakPos(line)
            next == normalized(value)
            wordGoesOn ==
                \/ lastStep.rest # <<>>
                \/ i <= Len(next) /\ next[i] \notin BreakChars \cup {LF}
        IN  /\ lastStep.kind = "limit" <=> Len(line) >= lim
            /\ lastStep.kind = "limit" =>
                /\ Len(line) = lim
                /\ IF 0 < p /\ p < Len(line)
                   THEN /\ lastStep.pushed = SubSeq(line, 1, p)
                        /\ lastStep.rest = SubSeq(line, p + 1, Len(line))
                   ELSE /\ lastStep.pushed = line
                        /\ lastStep.rest = <<>>
                /\ w.lines[Len(w.lines)] = lastStep.pushed
                /\ w.currentLine = lastStep.rest
                /\ (lastStep.pushed[Len(lastStep.pushed)] \notin BreakChars
                    /\ wordGoesOn) => p = 0

C10_Witness ==
    /\ wpc = "loop" /\ lastStep.kind = "limit"
    /\ LastBreakPos(lastStep.full) = 2
    /\ Len(lastStep.full) = 3
    /\ lastStep.rest # <<>>
    /\ Len(w.lines) >= 2

\* C11: every line wrapMonospaceText has pushed, and every line it returns,
\* is at most limit characters long (a maxCharsPerLine below 1 counts as 1),
\* and after every processed character column equals currentLine.length.
C11_LinesWithinLimit ==
    wpc \in {"loop", "done"} =>
        /\ w.column = Len(w.currentLine)
        /\ \A k \in 1..Len(w.lines) : Len(w.lines[k]) <= Max(1, maxCharsPerLine)
        /\ wpc = "done" => w.lines = wrapMonospaceText(value, maxCharsPerLine)

C11_Witness ==
    /\ wpc = "done"
    /\ maxCharsPerLine >= 2
    /\ Len(w.lines) >= 3
    /\ \E k \in 1..Len(w.lines) : Len(w.lines[k]) = maxCharsPerLine
    /\ \E k \in 1..Len(w.lines) : w.lines[k] # <<>> /\ Len(w.lines[k]) < maxCharsPerLine

\* the lines joined in order, nothing between them
RECURSIVE Concat(_)
Concat(ls) == IF ls = <<>> THEN <<>> ELSE Head(ls) \o Concat(Tail(ls))

\* a string with each CRLF replaced by LF and then every LF removed
RECURSIVE WithoutNewlines(_)
WithoutNewlines(s) ==
    IF s = <<>> THEN <<>>
    ELSE IF s[1] = LF THEN WithoutNewlines(Tail(s))
    ELSE IF Len(s) >= 2 /\ s[1] = CR /\ s[2] = LF
         THEN WithoutNewlines(SubSeq(s, 3, Len(s)))
         ELSE <<s[1]>> \o WithoutNewlines(Tail(s))

NewlinesOf(s) == Cardinality({k \in 1..Len(s) : s[k] = LF})

\* C12: wrapMonospaceText neither loses, duplicates nor reorders characters:
\* the returned lines, concatenated in order, are the input with each CRLF
\* replaced by LF and then all LF removed.
C12_NoCharacterLost ==
    wpc = "done" => Concat(w.lines) = WithoutNewlines(value)

C12_Witness ==
    /\ wpc = "done"
    /\ \E k \in 1..(Len(value) - 1) : value[k] = CR /\ value[k + 1] = LF
    /\ Len(w.lines) > NewlinesOf(value) + 1
    /\ \E k \in 1..Len(w.lines) :
        /\ w.lines[k] # <<>>
        /\ Len(w.lines[k]) < maxCharsPerLine
        /\ w.lines[k][Len(w.lines[k])] \in BreakChars

\* the text has an empty line: it is empty, starts or ends with a newline,
\* or has two newlines in a row
HasEmptyLine(n) ==
    \/ n = <<>>
    \/ n[1] = LF
    \/ n[Len(n)] = LF
    \/ \E k \in 1..(Len(n) - 1) : n[k] = LF /\ n[k + 1] = LF

\* every newline-separated segment of the text is at most lim characters
SegmentsFit(n, lim) ==
    \A k \in 1..(Len(n) - lim) : \E m \in k..(k + lim) : n[m] = LF

\* C13: wrapMonospaceText returns an empty line only where the input has
\* one, and an input with k newlines whose every segment fits within the
\* limit comes back as exactly k + 1 lines.
C13_EmptyLinesOnlyFromInput ==
    wpc = "done" =>
        LET n == normalized(value)
        IN  /\ (\E k \in 1..Len(w.lines) : w.lines[k] = <<>>) => HasEmptyLine(n)
            /\ SegmentsFit(n, Max(1, maxCharsPerLine))
                => Len(w.lines) = NewlinesOf(n) + 1

-----------------------------------------------------------------------------
(* Claims about file selection, checked under Spec *)

\* C14: the most recently selected file wins: once the renderImage call of
\* every selected file has resolved, in whatever order, photoImageData is
\* the render result of the file selected last.
C14_MostRecentFileWins ==
    (/\ mounted
     /\ files # <<>>
     /\ \A f \in FileIds : files[f] = "resolved")
        => photoImageData = renderImage(Len(files))

====
